---- MODULE Spec2Model ----
(***************************************************************************)
(* Model of arjunbhagoji/blackbox-attacks-eccv:                            *)
(*   src/mnist.py                        MNIST architecture factory and    *)
(*                                       load_model                        *)
(*   src/tutorial/cifar10_train_ensadv.py  CIFAR-10 ensemble adversarial   *)
(*                                       trainer                           *)
(* Two independent programs, hence two specifications over one variable    *)
(* tuple: Spec / FairSpec (the trainer) and SpecMnist (the MNIST module).  *)
(***************************************************************************)
EXTENDS Integers, Sequences, FiniteSets, TLC

VARIABLES
    \* ---- src/mnist.py ----
    m_json,       \* the sidecar <model_path>.json on disk
    m_weights,    \* the weights file <model_path> on disk
    m_call,       \* the call made: [op, type, n]
    m_result,     \* what the call did: [status, err, model, trace]
    \* ---- src/tutorial/cifar10_train_ensadv.py ----
    pc,           \* "training" | "stopped" | "aborted"
    flags,        \* FLAGS: [max_steps, log_frequency, epsilon, batch_size]
    global_step,  \* the global step variable of the graph
    batch,        \* tensors evaluated by the last session run
    adv_choice,   \* value of the adv_choice op in the last session run
    adv_images,   \* value of the adv_images op in the last session run
    loss_total,   \* value of loss_total in the last session run
    hook,         \* _LoggerHook: [_step, _start_time]
    clock,        \* time.time()
    log_lines,    \* the steps for which a log line was printed, in order
    last_run      \* bookkeeping of the last session run

mvars == <<m_json, m_weights, m_call, m_result>>
tvars == <<pc, flags, global_step, batch, adv_choice, adv_images, loss_total,
           hook, clock, log_lines, last_run>>
vars == <<m_json, m_weights, m_call, m_result,
          pc, flags, global_step, batch, adv_choice, adv_images, loss_total,
          hook, clock, log_lines, last_run>>

(***************************************************************************)
(* Bounds of the model.                                                    *)
(***************************************************************************)
MaxType == 8          \* model_mnist is called with type in -MaxType..MaxType
MaxBatchN == 2        \* MNIST input batches have 1..MaxBatchN rows
MaxStepsFlag == 2     \* FLAGS.max_steps ranges over 0..MaxStepsFlag
MaxLogFrequency == 2  \* FLAGS.log_frequency ranges over 1..MaxLogFrequency

(***************************************************************************)
(*                              src/mnist.py                               *)
(***************************************************************************)
IMAGE_ROWS == 28
IMAGE_COLS == 28
NUM_CHANNELS == 1
NUM_CLASSES == 10

\* The names bound by the module's import statements.
Imported ==
    {"mnist", "Sequential", "model_from_json", "Dense", "Dropout",
     "Activation", "Flatten", "Input", "Convolution2D", "MaxPooling2D",
     "ImageDataGenerator", "np_utils", "argparse", "np"}

\* Layers, as uniform records.  n: filters/units, k: kernel/pool size,
\* s: stride, pad: border mode, act: activation, rate: dropout rate in percent.
Layer(op, n, k, s, pad, act, rate) ==
    [op |-> op, n |-> n, k |-> k, s |-> s, pad |-> pad, act |-> act, rate |-> rate]
Conv(n, k, s, pad) == Layer("Conv", n, k, s, pad, "linear", 0)
Activation(fn) == Layer("Activation", 0, 0, 0, "", fn, 0)
Dropout(rate) == Layer("Dropout", 0, 0, 0, "", "linear", rate)
Flatten == Layer("Flatten", 0, 0, 0, "", "linear", 0)
Dense(n, act) == Layer("Dense", n, 0, 0, "", act, 0)
MaxPooling2D(k) == Layer("MaxPool", 0, k, k, "valid", "linear", 0)

NoShape == <<>>
InputShape == <<IMAGE_ROWS, IMAGE_COLS, NUM_CHANNELS>>

LayersA ==
    << Conv(64, 5, 1, "valid"), Activation("relu"),
       Conv(64, 5, 1, "valid"), Activation("relu"),
       Dropout(25), Flatten, Dense(128, "linear"), Activation("relu"),
       Dropout(50), Dense(NUM_CLASSES, "linear") >>
LayersB ==
    << Dropout(20),
       Conv(64, 8, 2, "same"), Activation("relu"),
       Conv(128, 6, 2, "valid"), Activation("relu"),
       Conv(128, 5, 1, "valid"), Activation("relu"),
       Dropout(50), Flatten, Dense(NUM_CLASSES, "linear") >>
LayersC ==
    << Conv(128, 3, 1, "valid"), Activation("relu"),
       Conv(64, 3, 1, "valid"), Activation("relu"),
       Dropout(25), Flatten, Dense(128, "linear"), Activation("relu"),
       Dropout(50), Dense(NUM_CLASSES, "linear") >>
LayersD ==
    << Flatten,
       Dense(300, "relu"), Dropout(50), Dense(300, "relu"), Dropout(50),
       Dense(300, "relu"), Dropout(50), Dense(300, "relu"), Dropout(50),
       Dense(NUM_CLASSES, "linear") >>
LayersE ==
    << Flatten, Dense(100, "relu"), Dense(100, "relu"),
       Dense(NUM_CLASSES, "linear") >>
LayersF ==
    << Conv(32, 3, 1, "valid"), Activation("relu"), MaxPooling2D(2),
       Conv(64, 3, 1, "valid"), Activation("relu"), MaxPooling2D(2),
       Flatten, Dense(1024, "linear"), Activation("relu"),
       Dense(NUM_CLASSES, "linear") >>

\* Outcomes of a call.
NoModel == [input_shape |-> NoShape, layers |-> <<>>, weights |-> "none"]
Returned(model) == [status |-> "returned", err |-> "none", model |-> model]
Raised(err) == [status |-> "raised", err |-> err, model |-> NoModel]

\* A factory body: every name it uses is looked up when the body runs; a name
\* that no import binds raises NameError, otherwise the model is returned.
Build(names, input_shape, layers) ==
    IF names \subseteq Imported
    THEN Returned([input_shape |-> input_shape, layers |-> layers,
                   weights |-> "initial"])
    ELSE Raised("NameError")

modelA ==
    Build({"Sequential", "Conv2D", "Activation", "Dropout", "Flatten", "Dense"},
          NoShape, LayersA)
modelB ==
    Build({"Sequential", "Dropout", "Convolution2D", "Activation", "Flatten", "Dense"},
          InputShape, LayersB)
modelC ==
    Build({"Sequential", "Convolution2D", "Activation", "Dropout", "Flatten", "Dense"},
          InputShape, LayersC)
modelD ==
    Build({"Sequential", "Flatten", "Dense", "Dropout"}, InputShape, LayersD)
modelE ==
    Build({"Sequential", "Flatten", "Dense"}, InputShape, LayersE)
modelF ==
    Build({"Sequential", "Convolution2D", "Activation", "MaxPooling2D", "Flatten", "Dense"},
          InputShape, LayersF)

CallFactory(name) ==
    CASE name = "modelA" -> modelA
      [] name = "modelB" -> modelB
      [] name = "modelC" -> modelC
      [] name = "modelD" -> modelD
      [] name = "modelE" -> modelE
      [] name = "modelF" -> modelF

\* A faulty ListGet: the index is reduced modulo the length.
ListGetModulo(list, i) ==
    [ok |-> TRUE, val |-> list[(i % Len(list)) + 1]]

\* list[i] of a Python list: 0-based, a negative index counts from the end,
\* anything else raises IndexError.
ListGet(list, i) ==
    IF 0 <= i /\ i < Len(list) THEN [ok |-> TRUE, val |-> list[i + 1]]
    ELSE IF -Len(list) <= i /\ i < 0 THEN [ok |-> TRUE, val |-> list[Len(list) + i + 1]]
    ELSE [ok |-> FALSE, val |-> ""]

models == <<"modelA", "modelB", "modelC", "modelD", "modelE", "modelF">>

model_mnist(type) ==
    LET f == ListGet(models, type)
    IN  IF f.ok THEN CallFactory(f.val) ELSE Raised("IndexError")

\* ---- shapes -------------------------------------------------------------
LayerOutShape(l, sh) ==
    CASE l.op = "Conv" ->
            IF l.pad = "valid"
            THEN << (sh[1] - l.k) \div l.s + 1, (sh[2] - l.k) \div l.s + 1, l.n >>
            ELSE << (sh[1] + l.s - 1) \div l.s, (sh[2] + l.s - 1) \div l.s, l.n >>
      [] l.op = "MaxPool" ->
            << (sh[1] - l.k) \div l.s + 1, (sh[2] - l.k) \div l.s + 1, sh[3] >>
      [] l.op = "Flatten" -> << sh[1] * sh[2] * sh[3] >>
      [] l.op = "Dense" -> << l.n >>
      [] OTHER -> sh

RECURSIVE ShapeAfter(_, _, _)
\* The per-sample shape after the first i layers.
ShapeAfter(layers, input_shape, i) ==
    IF i = 0 THEN input_shape
    ELSE LayerOutShape(layers[i], ShapeAfter(layers, input_shape, i - 1))

\* model.predict on a batch of n samples of shape (28,28,1).
OutputShape(model, n) ==
    <<n>> \o ShapeAfter(model.layers, InputShape, Len(model.layers))

\* The activation applied to the model's last scores.
FinalActivation(model) == model.layers[Len(model.layers)].act

\* The kernel shapes of the weighted layers, in order.
WeightShapes(layers) ==
    LET W(i) ==
          LET l == layers[i]
              sh == ShapeAfter(layers, InputShape, i - 1)
          IN  CASE l.op = "Conv" -> << <<l.k, l.k, sh[3], l.n>> >>
                [] l.op = "Dense" -> << <<sh[1], l.n>> >>
                [] OTHER -> << >>
        RECURSIVE Upto(_)
        Upto(i) == IF i = 0 THEN << >> ELSE Upto(i - 1) \o W(i)
    IN  Upto(Len(layers))

\* ---- load_model ---------------------------------------------------------
ArchLayers(a) ==
    CASE a = "A" -> LayersA
      [] a = "B" -> LayersB
      [] a = "C" -> LayersC
      [] a = "D" -> LayersD
      [] a = "E" -> LayersE
      [] a = "F" -> LayersF

Archs == {"A", "B", "C", "D", "E", "F"}

\* The sidecar: absent, unreadable (open fails for another reason, or read
\* fails), malformed text, or the serialized description of an architecture.
JsonFiles ==
    { [st |-> s, arch |-> "-"] : s \in {"absent", "open_error", "read_error", "malformed"} }
    \cup { [st |-> "valid", arch |-> a] : a \in Archs }

\* The weights file: absent, or the weights saved from an architecture.
WeightFiles ==
    { [st |-> "absent", arch |-> "-"] }
    \cup { [st |-> "present", arch |-> a] : a \in Archs }

\* with open(model_path+'.json','r') as f: json_string = f.read();
\* model = model_from_json(json_string)
TryBody(json) ==
    CASE json.st \in {"absent", "open_error"} ->
            [r |-> Raised("IOError"), trace |-> <<"open">>]
      [] json.st = "read_error" ->
            [r |-> Raised("IOError"), trace |-> <<"open", "read">>]
      [] json.st = "malformed" ->
            [r |-> Raised("ValueError"), trace |-> <<"open", "read", "model_from_json">>]
      [] json.st = "valid" ->
            [r |-> Returned([input_shape |-> InputShape,
                             layers |-> ArchLayers(json.arch),
                             weights |-> "initial"]),
             trace |-> <<"open", "read", "model_from_json">>]

\* A faulty Handles: a bare except.
HandlesAll(err) == TRUE

\* except IOError:
Handles(err) == err = "IOError"

\* model.load_weights(model_path)
load_weights(model, wfile) ==
    IF wfile.st = "absent" THEN Raised("IOError")
    ELSE IF WeightShapes(ArchLayers(wfile.arch)) # WeightShapes(model.layers)
    THEN Raised("ValueError")
    ELSE Returned([model EXCEPT !.weights = "loaded"])

load_model(json, wfile, type) ==
    LET t == TryBody(json)
        fallback == t.r.status = "raised" /\ Handles(t.r.err)
        built == IF fallback THEN model_mnist(type) ELSE t.r
        trace == IF fallback THEN t.trace \o <<"model_mnist">> ELSE t.trace
    IN  IF built.status = "raised"
        THEN [r |-> built, trace |-> trace]
        ELSE [r |-> load_weights(built.model, wfile),
              trace |-> trace \o <<"load_weights">>]

NoCall == [op |-> "none", type |-> 0, n |-> 0]
NoResult == [status |-> "none", err |-> "none", model |-> NoModel, trace |-> <<>>]

CallModelMnist ==
    /\ m_call.op = "none"
    /\ \E type \in -MaxType..MaxType, n \in 1..MaxBatchN :
         LET r == model_mnist(type)
         IN  /\ m_call' = [op |-> "model_mnist", type |-> type, n |-> n]
             /\ m_result' = [status |-> r.status, err |-> r.err, model |-> r.model,
                             trace |-> <<"model_mnist">>]
    /\ UNCHANGED <<m_json, m_weights, tvars>>

CallLoadModel ==
    /\ m_call.op = "none"
    /\ \E type \in -MaxType..MaxType, n \in 1..MaxBatchN :
         LET l == load_model(m_json, m_weights, type)
         IN  /\ m_call' = [op |-> "load_model", type |-> type, n |-> n]
             /\ m_result' = [status |-> l.r.status, err |-> l.r.err,
                             model |-> l.r.model, trace |-> l.trace]
    /\ UNCHANGED <<m_json, m_weights, tvars>>

MNext == CallModelMnist \/ CallLoadModel


(***************************************************************************)
(*                  src/tutorial/cifar10_train_ensadv.py                   *)
(***************************************************************************)
\* float32 values: a finite number or NaN.  A comparison with NaN is false.
F(v) == [nan |-> FALSE, v |-> v]
NaN == [nan |-> TRUE, v |-> 0]
FLt(a, b) == ~a.nan /\ ~b.nan /\ a.v < b.v
FGt(a, b) == ~a.nan /\ ~b.nan /\ a.v > b.v
FAdd(a, b) == IF a.nan \/ b.nan THEN NaN ELSE F(a.v + b.v)
FMul(a, b) == IF a.nan \/ b.nan THEN NaN ELSE F(a.v * b.v)
BoolToInt(b) == IF b THEN 1 ELSE 0
\* tf.sign, computed as the kernel computes it: (x > 0) - (x < 0).
TfSign(a) == F(BoolToInt(FGt(a, F(0))) - BoolToInt(FLt(a, F(0))))
\* tf.minimum / tf.maximum, computed as the kernels compute them.
TfMinimum(a, b) == IF FLt(b, a) THEN b ELSE a
TfMaximum(a, b) == IF FLt(a, b) THEN b ELSE a

\* A faulty TfClipByValue: nothing is clipped.
TfClipByValueIdentity(a, lo, hi) == a

\* tf.clip_by_value(t, clip_value_min, clip_value_max)
TfClipByValue(a, lo, hi) == TfMaximum(TfMinimum(a, hi), lo)

\* A tensor: where it comes from, its shape, and its value at one index; every
\* operation of the graph on image tensors is elementwise, the index is any.
Tensor(src, shape, px) == [src |-> src, shape |-> shape, px |-> px]
NoTensor == Tensor("none", <<>>, F(0))
ImageShape(batch_size) == <<batch_size, 32, 32, 3>>

\* What one dequeue of cifar10_input_ensemble.distorted_inputs yields at the
\* index: the clean image and its thin, wide and tutorial variants.
PipelinePixels ==
    { [images |-> F(100), thin |-> F(101), wide |-> F(110), tutorial |-> F(95)],
      [images |-> F(250), thin |-> F(251), wide |-> F(255), tutorial |-> F(244)],
      [images |-> F(-3), thin |-> F(0), wide |-> F(4), tutorial |-> F(2)] }

\* Values of the gradient of noleak_loss at the index.
GradVals == {F(-2), F(0), F(5), NaN}
\* Values of loss_benign and loss_adv.
LossVals == {F(2), NaN}
\* Values of FLAGS.epsilon.
Epsilons == {F(0), F(8)}
\* Values of FLAGS.batch_size.
BatchSizes == {1, 2}

\* make_dynamic_adv_images, at the index: images is the clean tensor, grads
\* the value of tf.gradients(noleak_loss, images).
make_dynamic_adv_images(images, grads, epsilon) ==
    LET perturbation == FMul(epsilon, TfSign(grads))
    IN  Tensor("dynamic", images.shape,
               TfClipByValue(FAdd(images.px, perturbation), F(0), F(255)))

make_poison(batch_size) == Tensor("poison", ImageShape(batch_size), NaN)

\* tf.case(pred_fn_pairs, default): the first pair whose predicate is true,
\* the default when none is.
TfCase(pairs, default) ==
    LET hits == { i \in 1..Len(pairs) : pairs[i].pred }
    IN  IF hits = {} THEN default
        ELSE pairs[CHOOSE i \in hits : \A j \in hits : i <= j].fn

\* A faulty AdvImagesCase: the thin batch takes the place of the wide one.
AdvImagesCaseThin(choice, b, batch_size) ==
    TfCase(<< [pred |-> choice = 0, fn |-> b.dynamic_adv_images],
              [pred |-> choice = 1, fn |-> b.images_adv_thin],
              [pred |-> choice = 2, fn |-> b.images_adv_tutorial] >>,
           make_poison(batch_size))

\* adv_images = tf.case([...], default=make_poison)
AdvImagesCase(choice, b, batch_size) ==
    TfCase(<< [pred |-> choice = 0, fn |-> b.dynamic_adv_images],
              [pred |-> choice = 1, fn |-> b.images_adv_wide],
              [pred |-> choice = 2, fn |-> b.images_adv_tutorial] >>,
           make_poison(batch_size))

\* tf.random_uniform([], minval, maxval, dtype=tf.int32): minval <= v < maxval.
RandomUniformInt(minval, maxval) == minval..(maxval - 1)

\* A faulty AdvChoiceDraws: the upper bound is included.
AdvChoiceDrawsInclusive == RandomUniformInt(0, 3 + 1)

\* adv_choice = tf.random_uniform([], maxval=3, dtype=tf.int32)
AdvChoiceDraws == RandomUniformInt(0, 3)

\* cifar10_reusable.loss(cifar10_reusable.inference(adv_images), labels):
\* NaN inputs give a NaN loss; otherwise the loss is finite or has diverged.
LossAdvValues(adv) == IF adv.px.nan THEN {NaN} ELSE LossVals

\* train_op = cifar10_reusable.train(loss_total, global_step): one optimizer
\* step, which increments the global step.
TrainOp(step) == step + 1

\* A faulty StopAtStepHook_after_run: the stop is requested one step early.
StopAtStepHook_early(seen_step, last_step) == seen_step + 1 >= last_step

\* tf.train.StopAtStepHook(last_step).after_run: whether a stop is requested,
\* given the global step value the hook read.
StopAtStepHook_after_run(seen_step, last_step) == seen_step >= last_step

\* A faulty NanTensorHook_after_run: a NaN loss is let through.
NanTensorHook_ignore(loss) == "continue"

\* tf.train.NanTensorHook(loss_total).after_run (fail_on_nan_loss defaults to
\* True): raises NanLossDuringTrainingError on a NaN loss.
NanTensorHook_after_run(loss) == IF loss.nan THEN "raise" ELSE "continue"

\* _LoggerHook.begin
LoggerHook_begin(now) == [_step |-> -1, _start_time |-> now]

\* _LoggerHook.before_run
LoggerHook_before_run(h) == [h EXCEPT !._step = @ + 1]

\* A faulty LoggerHook_after_run: the test is made on the next step.
LoggerHook_after_run_shifted(h, now, log_frequency) ==
    IF (h._step + 1) % log_frequency = 0
    THEN [hook |-> [h EXCEPT !._start_time = now], line |-> TRUE]
    ELSE [hook |-> h, line |-> FALSE]

\* _LoggerHook.after_run: the hook afterwards and whether a line was printed.
LoggerHook_after_run(h, now, log_frequency) ==
    IF h._step % log_frequency = 0
    THEN [hook |-> [h EXCEPT !._start_time = now], line |-> TRUE]
    ELSE [hook |-> h, line |-> FALSE]

NoBatch ==
    [images |-> NoTensor, images_adv_thin |-> NoTensor,
     images_adv_wide |-> NoTensor, images_adv_tutorial |-> NoTensor,
     grads |-> F(0), dynamic_adv_images |-> NoTensor]

NoRun == [seen_step |-> 0, stop_requested |-> FALSE, err |-> "none",
          logger_after_run |-> FALSE, line |-> FALSE, step_before |-> 0]

\* One iteration of `while not mon_sess.should_stop(): mon_sess.run(train_op)`:
\* the hooks' before_run, the session run (which evaluates the graph once and
\* applies train_op), then the hooks' after_run in the order of the hook list.
TrainStep ==
    /\ pc = "training"
    /\ global_step' = TrainOp(global_step)
    /\ clock' = clock + 1
    /\ \E p \in PipelinePixels, g \in GradVals :
         LET shape == ImageShape(flags.batch_size)
             images == Tensor("images", shape, p.images)
             b == [images |-> images,
                   images_adv_thin |-> Tensor("thin", shape, p.thin),
                   images_adv_wide |-> Tensor("wide", shape, p.wide),
                   images_adv_tutorial |-> Tensor("tutorial", shape, p.tutorial),
                   grads |-> g,
                   dynamic_adv_images |->
                       make_dynamic_adv_images(images, g, flags.epsilon)]
         IN  /\ batch' = b
             /\ \E c \in AdvChoiceDraws :
                  LET adv == AdvImagesCase(c, b, flags.batch_size)
                  IN  /\ adv_choice' = c
                      /\ adv_images' = adv
                      /\ \E lb \in LossVals, la \in LossAdvValues(adv) :
                           loss_total' = FAdd(lb, la)
    /\ \E seen \in {global_step, global_step'} :
         LET h1 == LoggerHook_before_run(hook)
             stop == StopAtStepHook_after_run(seen, flags.max_steps)
             nan == NanTensorHook_after_run(loss_total')
             lg == IF nan = "raise" THEN [hook |-> h1, line |-> FALSE]
                   ELSE LoggerHook_after_run(h1, clock', flags.log_frequency)
         IN  /\ hook' = lg.hook
             /\ log_lines' = IF lg.line THEN Append(log_lines, h1._step)
                             ELSE log_lines
             /\ last_run' = [seen_step |-> seen, stop_requested |-> stop,
                             err |-> IF nan = "raise"
                                     THEN "NanLossDuringTrainingError"
                                     ELSE "none",
                             logger_after_run |-> nan # "raise",
                             line |-> lg.line,
                             step_before |-> global_step]
             /\ pc' = IF nan = "raise" THEN "aborted"
                      ELSE IF stop THEN "stopped" ELSE "training"
    /\ UNCHANGED <<flags, mvars>>

TNext == TrainStep

\* The trainer: main() has wiped train_dir, so the session starts from global
\* step 0, and the hooks' begin() has run.  The MNIST module is not called.
Init ==
    /\ pc = "training"
    /\ flags \in [max_steps : 0..MaxStepsFlag,
                  log_frequency : 1..MaxLogFrequency,
                  epsilon : Epsilons,
                  batch_size : BatchSizes]
    /\ global_step = 0
    /\ batch = NoBatch
    /\ adv_choice = -1
    /\ adv_images = NoTensor
    /\ loss_total = F(0)
    /\ clock = 0
    /\ hook = LoggerHook_begin(0)
    /\ log_lines = <<>>
    /\ last_run = NoRun
    /\ m_json = [st |-> "absent", arch |-> "-"]
    /\ m_weights = [st |-> "absent", arch |-> "-"]
    /\ m_call = NoCall
    /\ m_result = NoResult

\* The MNIST module: any sidecar and weights file on disk, no call made yet.
\* The trainer is not run.
InitMnist ==
    /\ m_json \in JsonFiles
    /\ m_weights \in WeightFiles
    /\ m_call = NoCall
    /\ m_result = NoResult
    /\ pc = "stopped"
    /\ flags = [max_steps |-> 0, log_frequency |-> 1, epsilon |-> F(0), batch_size |-> 1]
    /\ global_step = 0
    /\ batch = NoBatch
    /\ adv_choice = -1
    /\ adv_images = NoTensor
    /\ loss_total = F(0)
    /\ clock = 0
    /\ hook = LoggerHook_begin(0)
    /\ log_lines = <<>>
    /\ last_run = NoRun

Spec == Init /\ [][TNext]_vars

\* The loop `while not mon_sess.should_stop(): mon_sess.run(train_op)` keeps
\* iterating as long as should_stop() is false: weak fairness of TrainStep.
\* Every step of TNext is a TrainStep step and advances global_step, and
\* TrainStep is enabled exactly when pc = "training", so WF_vars(TrainStep) is
\* stated here through LoopIteration, which names no draw of the step.
LoopIteration == pc = "training" /\ global_step' = global_step + 1
FairSpec == Init /\ [][TNext]_vars /\ WF_global_step(LoopIteration)
SpecMnist == InitMnist /\ [][MNext]_vars

(***************************************************************************)
(*                               Properties                                *)
(***************************************************************************)
Ran == hook._step >= 0
PoisonTensor == [src |-> "poison", shape |-> <<flags.batch_size, 32, 32, 3>>, px |-> NaN]

\* C1: the adversarial batch of a step is determined by adv_choice alone:
\* 0 selects the dynamic batch, 1 the wide batch, 2 the tutorial batch, and
\* any forced value outside {0,1,2} selects the all-NaN batch of shape
\* (batch_size,32,32,3).
C1_AdvImagesFollowChoice ==
    /\ Ran => adv_images = (CASE adv_choice = 0 -> batch.dynamic_adv_images
                              [] adv_choice = 1 -> batch.images_adv_wide
                              [] adv_choice = 2 -> batch.images_adv_tutorial
                              [] OTHER -> PoisonTensor)
    /\ Ran => /\ batch.dynamic_adv_images.src = "dynamic"
              /\ batch.images_adv_wide.src = "wide"
              /\ batch.images_adv_tutorial.src = "tutorial"
    /\ \A c \in -3..6 :
         LET sel == AdvImagesCase(c, batch, flags.batch_size)
         IN  /\ c = 0 => sel = batch.dynamic_adv_images
             /\ c = 1 => sel = batch.images_adv_wide
             /\ c = 2 => sel = batch.images_adv_tutorial
             /\ c \notin {0, 1, 2} => sel = PoisonTensor

C1_Witness ==
    /\ Ran /\ adv_choice = 1
    /\ adv_images.src = "wide" /\ adv_images.px = F(110)
    /\ batch.images_adv_thin.px = F(101)

\* C2: in every training step adv_choice lies in {0,1,2}, and the batch that
\* enters the adversarial loss is the dynamic, wide or tutorial batch: never
\* the NaN poison batch, never the held-out thin batch.
C2_ChoiceInRange ==
    Ran => /\ adv_choice \in {0, 1, 2}
           /\ adv_images \in {batch.dynamic_adv_images, batch.images_adv_wide,
                              batch.images_adv_tutorial}
           /\ adv_images.src \in {"dynamic", "wide", "tutorial"}
           /\ adv_images.src # "poison" /\ ~adv_images.px.nan
           /\ adv_images.src # "thin"

C2_Witness ==
    /\ global_step >= 2 /\ adv_choice = 2 /\ adv_images.src = "tutorial"

\* C3: the training loop eventually stops; it has stopped only if the global
\* step has reached max_steps or the total loss was NaN; as long as it has not
\* stopped another step can be run, and every step advances the global step
\* by exactly one.
C3_LoopTerminates ==
    /\ <>(pc # "training")
    /\ [](pc # "training" => (global_step >= flags.max_steps \/ loss_total.nan))
    /\ [](pc = "stopped" => global_step >= flags.max_steps)
    /\ []((global_step < flags.max_steps /\ ~loss_total.nan) => pc = "training")
    /\ [](pc = "training" => ENABLED TrainStep)
    /\ [][pc = "training" /\ global_step' = global_step + 1]_vars

C3_Witness ==
    /\ pc = "stopped" /\ flags.max_steps = 2 /\ global_step = 2
    /\ ~loss_total.nan

\* C4: a NaN total loss aborts the session in the same step with an error; no
\* step follows an abort (no recovery, no retry); a step whose adversarial
\* batch is the poison batch has a NaN total loss and is the last one.
C4_NanAborts ==
    /\ []((Ran /\ loss_total.nan) =>
            (pc = "aborted" /\ last_run.err = "NanLossDuringTrainingError"))
    /\ [](pc = "aborted" => loss_total.nan)
    /\ [](adv_images.src = "poison" => pc = "aborted")
    /\ [](\A lb \in LossVals : \A la \in LossAdvValues(make_poison(flags.batch_size)) :
            NanTensorHook_after_run(FAdd(lb, la)) = "raise")
    /\ [][pc # "aborted"]_vars

C4_Witness ==
    /\ pc = "aborted" /\ loss_total.nan /\ global_step = 2
    /\ last_run.err = "NanLossDuringTrainingError"

\* C7: the dynamic adversarial pixel is clip(x + epsilon * sign(g), 0, 255):
\* it lies in [0,255], and for epsilon = 0 it is the clipped clean pixel
\* whatever the gradient is.
C7_FgsmClipped ==
    Ran =>
      LET x == batch.images.px.v
          g == batch.grads
          e == flags.epsilon.v
          d == batch.dynamic_adv_images.px
          IntClip(v) == IF v < 0 THEN 0 ELSE IF v > 255 THEN 255 ELSE v
          Sgn(v) == IF v > 0 THEN 1 ELSE IF v < 0 THEN -1 ELSE 0
      IN  /\ ~d.nan
          /\ 0 <= d.v /\ d.v <= 255
          /\ ~g.nan => d.v = IntClip(x + e * Sgn(g.v))
          /\ e = 0 => d.v = IntClip(x)
          /\ batch.dynamic_adv_images.shape = batch.images.shape

C7_Witness ==
    /\ Ran /\ flags.epsilon = F(8)
    /\ batch.images.px = F(250) /\ batch.grads = F(5)
    /\ batch.dynamic_adv_images.px = F(255)

\* The multiples of log_frequency among the steps for which _LoggerHook's
\* after_run was called.
LinesUpTo(last) ==
    [i \in 1..((last \div flags.log_frequency) + 1) |-> (i - 1) * flags.log_frequency]

\* C10 (as stated): a line is emitted after a run exactly when the counter is
\* a multiple of log_frequency, so lines appear at steps 0, log_frequency,
\* 2*log_frequency, ...
C10_LineAtEveryMultiple ==
    Ran => /\ last_run.line <=> (hook._step % flags.log_frequency = 0)
           /\ log_lines = LinesUpTo(hook._step)

\* C10 (amended): the counter is -1 at begin and grows by one per session
\* run; a line is emitted after a run exactly when the counter is a multiple
\* of log_frequency and the run's total loss is not NaN (NanTensorHook raises
\* before _LoggerHook.after_run is called); any two consecutive lines are
\* log_frequency steps apart, starting at step 0; _start_time changes only
\* when a line is emitted.
C10_LineAtMultipleUnlessNan ==
    /\ [](hook._step = global_step - 1)
    /\ [](Ran => (last_run.line <=>
                    (hook._step % flags.log_frequency = 0 /\ ~loss_total.nan)))
    /\ [](Ran => log_lines =
                   LinesUpTo(IF pc = "aborted" THEN hook._step - 1 ELSE hook._step))
    /\ [](\A i \in 1..Len(log_lines) - 1 :
            log_lines[i + 1] - log_lines[i] = flags.log_frequency)
    /\ [][/\ hook'._step = hook._step + 1
          /\ hook'._start_time # hook._start_time => last_run'.line
          /\ last_run'.line => hook'._start_time = clock']_vars

C10_Witness ==
    /\ pc = "aborted" /\ flags.log_frequency = 2 /\ hook._step = 2
    /\ log_lines = <<0>> /\ ~last_run.line

\* ---- src/mnist.py --------------------------------------------------------
InTrace(x) == \E i \in 1..Len(m_result.trace) : m_result.trace[i] = x
Times(x) == Cardinality({i \in 1..Len(m_result.trace) : m_result.trace[i] = x})
VariantArch(type) == <<"A", "B", "C", "D", "E", "F">>[type + 1]
IsVariant(model, type) ==
    /\ model.layers = ArchLayers(VariantArch(type))
    /\ model.input_shape = InputShape
WeightsMatch(arch) ==
    /\ m_weights.st = "present"
    /\ WeightShapes(ArchLayers(m_weights.arch)) = WeightShapes(ArchLayers(arch))

\* C5: with no sidecar, load_model returns variant `type`; with a valid
\* sidecar it returns the architecture the JSON describes, whatever `type`
\* is; in both cases the weights of <model_path> (of matching shape) are
\* loaded into the model before it is returned.
C5_LoadModelReturnsVariant ==
    m_call.op = "load_model" =>
        /\ (/\ m_json.st = "absent"
            /\ m_call.type \in 0..5
            /\ WeightsMatch(VariantArch(m_call.type))) =>
               /\ m_result.status = "returned"
               /\ IsVariant(m_result.model, m_call.type)
               /\ m_result.model.weights = "loaded"
        /\ (m_json.st = "valid" /\ WeightsMatch(m_json.arch)) =>
               /\ m_result.status = "returned"
               /\ m_result.model.layers = ArchLayers(m_json.arch)
               /\ m_result.model.weights = "loaded"
               /\ ~InTrace("model_mnist")

\* C6: for every variant index in 0..5, model_mnist returns a model that
\* takes (N,28,28,1) input and produces N rows of 10 raw scores, without a
\* final activation.
C6_EveryVariantBuilds ==
    (m_call.op = "model_mnist" /\ m_call.type \in 0..5) =>
        /\ m_result.status = "returned"
        /\ m_result.model.input_shape = <<28, 28, 1>>
        /\ OutputShape(m_result.model, m_call.n) = <<m_call.n, 10>>
        /\ FinalActivation(m_result.model) = "linear"

\* C8 (as stated): every index outside [0,5] makes model_mnist, and
\* load_model's fallback, fail and return no model.
C8_OutOfRangeFails ==
    (/\ m_call.op \in {"model_mnist", "load_model"}
     /\ InTrace("model_mnist")
     /\ m_call.type \notin 0..5) =>
        /\ m_result.status = "raised"
        /\ m_result.model = NoModel

\* C8 (amended): every index outside [-6,5] makes model_mnist, and
\* load_model's fallback, fail with IndexError and return no model.
C8_OutsideListRangeFails ==
    (/\ m_call.op \in {"model_mnist", "load_model"}
     /\ InTrace("model_mnist")
     /\ m_call.type \notin -6..5) =>
        /\ m_result.status = "raised"
        /\ m_result.err = "IndexError"
        /\ m_result.model = NoModel
        /\ ~InTrace("load_weights")

C8_Witness ==
    /\ m_call.op = "load_model" /\ m_call.type = 6 /\ m_json.st = "absent"
    /\ m_result.status = "raised" /\ m_result.err = "IndexError"

\* C9: in load_model an I/O error while opening or reading the sidecar takes
\* the fallback that builds variant `type`; malformed JSON, a missing weights
\* file and a weight-shape mismatch propagate: no model is returned, the
\* fallback is not taken for them, and no call is made twice.
C9_OnlyIOErrorFallsBack ==
    m_call.op = "load_model" =>
        /\ m_json.st \in {"absent", "open_error", "read_error"} =>
               /\ InTrace("model_mnist")
               /\ ~InTrace("model_from_json")
        /\ m_json.st = "malformed" =>
               /\ m_result.status = "raised" /\ m_result.err = "ValueError"
               /\ m_result.model = NoModel
               /\ ~InTrace("model_mnist") /\ ~InTrace("load_weights")
        /\ m_json.st = "valid" => ~InTrace("model_mnist")
        /\ (InTrace("load_weights") /\ m_weights.st = "absent") =>
               /\ m_result.status = "raised" /\ m_result.err = "IOError"
               /\ m_result.model = NoModel
        /\ (m_json.st = "valid" /\ ~WeightsMatch(m_json.arch)) =>
               /\ m_result.status = "raised"
               /\ m_result.err \in {"IOError", "ValueError"}
               /\ m_result.model = NoModel
        /\ (/\ m_json.st \in {"absent", "open_error", "read_error"}
            /\ m_call.type \in 1..5
            /\ ~WeightsMatch(VariantArch(m_call.type))) =>
               /\ m_result.status = "raised"
               /\ m_result.err \in {"IOError", "ValueError"}
               /\ m_result.model = NoModel
        /\ \A c \in {"open", "read", "model_from_json", "model_mnist", "load_weights"} :
               Times(c) <= 1

C9_Witness ==
    /\ m_call.op = "load_model"
    /\ m_json.st = "valid" /\ m_weights.st = "absent"
    /\ m_result.status = "raised" /\ m_result.err = "IOError"
    /\ ~InTrace("model_mnist")

====
